---- MODULE Spec2Model ----
(***************************************************************************)
(* Model of PYTHON/ParmTransfer/parm_transfer.py: the parameter snapshot   *)
(* (ParameterItem), the transfer resolver (_transfer_parameter) and the    *)
(* panel that drives it (_do_transfer and the widgets around it).          *)
(*                                                                         *)
(* The host scene graph (hou) is modelled as the variable scene: every     *)
(* node owns named parameters, each with a lock flag, a stored (raw)       *)
(* value, an optional expression and a keyframe list.  Calls of the scene  *)
(* API can raise: a call through a handle whose parameter was deleted      *)
(* raises, and the variable faults names further calls that raise.         *)
(***************************************************************************)
EXTENDS Integers, Sequences, FiniteSets, TLC

VARIABLES
    scene,                  \* the live scene graph: node -> parameter name -> parameter
    deleted,                \* the nodes that were deleted from the scene
    faults,                 \* the scene-API calls that currently raise
    _source_node,           \* ParameterTransferPanel._source_node
    parameters,             \* ParameterTableModel.parameters: the snapshot list
    checked_items,          \* ParameterTableModel.checked_items
    show_only_non_default,  \* ParameterTableModel.show_only_non_default
    filter_text,            \* ParameterTableModel.filter_text
    _filtered_indices,      \* ParameterTableModel._filtered_indices
    _nodes,                 \* MultiNodePickerWidget._nodes
    node_list,              \* MultiNodePickerWidget.node_list: the paths shown
    batch,                  \* history: what the last _do_transfer did
    last                    \* history: the last call of _transfer_parameter

\* the table model
tableVars == <<parameters, checked_items, show_only_non_default, filter_text,
               _filtered_indices>>
\* the target picker
pickerVars == <<_nodes, node_list>>
\* the widgets of the panel
uiVars == <<_source_node, tableVars, pickerVars>>

vars == <<scene, deleted, faults, uiVars, batch, last>>

\* ------------------------------------------------------------------ bounds

\* longest keyframe list of a source parameter
MaxKeys == 2
\* most scene-API calls that raise at the same time
MaxFaults == 1
\* most disturbances of the scene a batch runs on at the same time: locked
\* parameters, deleted parameters, deleted nodes, raising calls
MaxSceneEdits == 2

\* ------------------------------------------------------------- the scene

Nodes == {"n1", "n2"}
Names == {"tx", "file"}

NoExpr == [text |-> "", lang |-> ""]
NoParm == [exists |-> FALSE, locked |-> FALSE, value |-> "",
           expr |-> NoExpr, keys |-> <<>>]

\* parm.parmTemplate().type()
ParmType(name) ==
    CASE name = "file" -> "String"
      [] name = "mode" -> "Menu"
      [] name = "on" -> "Toggle"
      [] name = "ramp" -> "Ramp"
      [] OTHER -> "Float"

\* parm.description()
ParmLabel(name) ==
    CASE name = "file" -> "File"
      [] name = "mode" -> "Mode"
      [] name = "on" -> "Enable"
      [] name = "ramp" -> "Ramp"
      [] OTHER -> "Translate X"

DefaultValue(name) ==
    CASE name = "file" -> ""
      [] name \in {"mode", "on"} -> "0"
      [] name = "ramp" -> "<hou.Ramp>"
      [] OTHER -> "0.0"

\* dollar-sign expansion of a raw string
Expand(raw) ==
    IF Len(raw) >= 4 /\ SubSeq(raw, 1, 4) = "$HIP"
    THEN "/home/user" \o SubSeq(raw, 5, Len(raw))
    ELSE raw

\* the value an expression evaluates to
ExprValue(e) ==
    CASE e.text = "ch(\"../ty\")" -> "9.0"
      [] e.text = "chs(\"../map\")" -> "/tmp/map.png"
      [] e.text = "$F" -> "1.0"
      [] OTHER -> e.text

CurrentFrame == 1

RECURSIVE KeyValueAt(_, _, _)
\* value of the keyframe list ks at frame f: the last key at or before f,
\* the first key when f lies before all of them
KeyValueAt(ks, f, i) ==
    IF i = Len(ks) THEN ks[i].value
    ELSE IF ks[i + 1].time > f THEN ks[i].value
    ELSE KeyValueAt(ks, f, i + 1)

\* parm.eval()
EvalParm(type, p) ==
    IF p.keys # <<>> THEN KeyValueAt(p.keys, CurrentFrame, 1)
    ELSE IF p.expr # NoExpr THEN ExprValue(p.expr)
    ELSE IF type = "String" THEN Expand(p.value)
    ELSE p.value

\* parm.isTimeDependent()
IsTimeDependent(p) == p.keys # <<>>

\* parm.isAtDefault()
IsAtDefault(name, p) ==
    p.value = DefaultValue(name) /\ p.expr = NoExpr /\ p.keys = <<>>

\* the parameter a handle [node, name] refers to
Deref(s, h) == s[h.node][h.name]

\* a call through a handle raises hou.ObjectWasDeleted once its parameter is gone
Alive(s, h) == Deref(s, h).exists

Update(s, n, m, p) == [s EXCEPT ![n][m] = p]

Range(q) == {q[i] : i \in 1..Len(q)}

\* ------------------------------------------------------------- the faults

SimpleOps == {"eval", "unexpandedString", "expression", "expressionLanguage",
              "keyframes", "deleteAllKeyframes", "setExpression", "set"}

\* a fault names the call that raises; setKeyframe raises at its at-th call.
\* A raising call raises hou.OperationFailed, the error of the host for a call
\* it cannot carry out, which every handler of the program catches.
FaultSpace ==
    {[op |-> o, at |-> 1] : o \in SimpleOps}
    \cup {[op |-> "setKeyframe", at |-> k] : k \in 1..MaxKeys}

Fails(F, op) == \E f \in F : f.op = op

\* ------------------------------------------------- the parameter snapshot

\* GetValue without its second tier: a failed evaluation gives None at once
GetValue_NoRawFallback(s, h, F) ==
    IF Alive(s, h) /\ ~Fails(F, "eval")
    THEN EvalParm(ParmType(h.name), Deref(s, h))
    ELSE "None"

\* ParameterItem._get_value
GetValue(s, h, F) ==
    IF Alive(s, h) /\ ~Fails(F, "eval")
    THEN EvalParm(ParmType(h.name), Deref(s, h))
    ELSE IF Alive(s, h) /\ ~Fails(F, "unexpandedString")
    THEN Deref(s, h).value
    ELSE "None"

\* the probe of ParameterItem.__init__: parm.expression() raises when the
\* parameter holds none
ProbeExpression(s, h, F) ==
    Alive(s, h) /\ ~Fails(F, "expression") /\ Deref(s, h).expr # NoExpr

\* str(value): the values of the model are held as Python prints them, None
\* as "None"
StrOf(v) == v

\* parm_template.menuLabels()
MenuLabels == <<"Box", "Sphere">>

\* whether int(val) returns
CanInt(v) == v \in {"0", "1", "5"}

\* int(val)
IntOf(v) ==
    CASE v = "1" -> 1
      [] v = "5" -> 5
      [] OTHER -> 0

\* the truth value of val
Truthy(v) == v \notin {"0", "0.0", "", "None"}

\* f"{val:.6g}": six significant digits, no trailing zeros
FormatG6(v) ==
    IF v = "0.1234567" THEN "0.123457"
    ELSE IF Len(v) > 2 /\ SubSeq(v, Len(v) - 1, Len(v)) = ".0"
    THEN SubSeq(v, 1, Len(v) - 2)
    ELSE v

\* the String branch of _get_display_value
Truncate(val) == IF Len(val) > 50 THEN SubSeq(val, 1, 47) \o "..." ELSE val

\* whether an exception reaches the outer handler of _get_display_value
DisplayRaises(s, h, type, F) ==
    \/ Fails(F, "type")
    \/ type # "Ramp" /\ (~Alive(s, h) \/ Fails(F, "eval"))

\* ParameterItem._get_display_value, value being self.value
GetDisplayValue(s, h, type, value, F) ==
    LET val == EvalParm(type, Deref(s, h))
        idx == IntOf(val)
    IN  IF type = "Menu" /\ ~Fails(F, "type") /\ ~Fails(F, "menuLabels")
           /\ Alive(s, h) /\ ~Fails(F, "eval")
           /\ CanInt(val) /\ 0 <= idx /\ idx < Len(MenuLabels)
        THEN MenuLabels[idx + 1] \o " (" \o ToString(idx) \o ")"
        ELSE IF DisplayRaises(s, h, type, F) THEN StrOf(value)
        ELSE IF type = "Toggle" THEN (IF Truthy(val) THEN "On" ELSE "Off")
        ELSE IF type = "String" THEN Truncate(val)
        ELSE IF type = "Ramp" THEN "[Ramp Data]"
        ELSE IF type = "Float" THEN FormatG6(val)
        ELSE StrOf(val)

\* ParameterItem.__init__
ParameterItem(s, node, name, F) ==
    LET h == [node |-> node, name |-> name]
        p == Deref(s, h)
        hk == IsTimeDependent(p)
    IN  [parm |-> h,
         name |-> name,
         label |-> ParmLabel(name),
         type |-> ParmType(name),
         is_at_default |-> IsAtDefault(name, p),
         value |-> GetValue(s, h, F),
         value_display |-> GetDisplayValue(s, h, ParmType(name), GetValue(s, h, F), F),
         has_keyframes |-> hk,
         has_expression |-> IF hk THEN FALSE ELSE ProbeExpression(s, h, F)]

\* ---------------------------------------------------- the scene-API writes

\* target_parm.deleteAllKeyframes()
DeleteAllKeyframes(p) == [p EXCEPT !.keys = <<>>]

\* target_parm.setKeyframe(k): a key at a time that already holds one replaces
\* it, the list stays ordered by time
SetKeyframe(p, k) ==
    LET before == SelectSeq(p.keys, LAMBDA x : x.time < k.time)
        after == SelectSeq(p.keys, LAMBDA x : x.time > k.time)
    IN  [p EXCEPT !.keys = before \o <<k>> \o after]

\* target_parm.setExpression(expr, lang)
SetExpression(p, text, lang) == [p EXCEPT !.expr = [text |-> text, lang |-> lang]]

\* target_parm.set(value)
SetValue(p, v) == [p EXCEPT !.value = v]

\* ------------------------------------------------- the transfer resolver

Ret(outcome, s) == [outcome |-> outcome, scene |-> s]

\* the setKeyframe call that raises, 0 when none does
KeyframeFaultAt(F) ==
    IF Fails(F, "setKeyframe")
    THEN (CHOOSE f \in F : f.op = "setKeyframe").at
    ELSE 0

RECURSIVE SetKeyframesFrom(_, _, _, _)
\* the loop of the keyframe branch from its i-th iteration on: the target
\* parameter p after it, and whether it ran to its end
SetKeyframesFrom(p, ks, i, failAt) ==
    IF i > Len(ks) THEN [ok |-> TRUE, parm |-> p]
    ELSE IF i = failAt THEN [ok |-> FALSE, parm |-> p]
    ELSE SetKeyframesFrom(SetKeyframe(p, ks[i]), ks, i + 1, failAt)

\* CopyKeyframes without its call of deleteAllKeyframes
CopyKeyframes_NoClear(s, item, tn, F) ==
    IF ~Alive(s, item.parm) \/ Fails(F, "keyframes") THEN Ret("failed", s)
    ELSE
        LET w == SetKeyframesFrom(s[tn][item.name], Deref(s, item.parm).keys,
                                  1, KeyframeFaultAt(F))
        IN  Ret(IF w.ok THEN "success" ELSE "failed",
                Update(s, tn, item.name, w.parm))

\* the keyframe branch of _transfer_parameter
CopyKeyframes(s, item, tn, F) ==
    IF Fails(F, "deleteAllKeyframes") THEN Ret("failed", s)
    ELSE
        LET s1 == Update(s, tn, item.name, DeleteAllKeyframes(s[tn][item.name]))
        IN  IF ~Alive(s1, item.parm) \/ Fails(F, "keyframes") THEN Ret("failed", s1)
            ELSE
                LET w == SetKeyframesFrom(s1[tn][item.name], Deref(s1, item.parm).keys,
                                          1, KeyframeFaultAt(F))
                    s2 == Update(s1, tn, item.name, w.parm)
                IN  Ret(IF w.ok THEN "success" ELSE "failed", s2)

\* CopyExpression that leaves a target alone which already holds the source's
\* expression, and reports that as a failed copy
CopyExpression_Once(s, item, tn, F) ==
    IF \/ ~Alive(s, item.parm)
       \/ Fails(F, "expression")
       \/ Deref(s, item.parm).expr = NoExpr
       \/ Fails(F, "expressionLanguage")
       \/ Fails(F, "setExpression")
       \/ s[tn][item.name].expr = Deref(s, item.parm).expr
    THEN [ok |-> FALSE, scene |-> s]
    ELSE
        LET e == Deref(s, item.parm).expr
        IN  [ok |-> TRUE,
             scene |-> Update(s, tn, item.name,
                              SetExpression(s[tn][item.name], e.text, e.lang))]

\* the expression branch of _transfer_parameter: whether the three calls of
\* its inner try all returned, and the scene after them
CopyExpression(s, item, tn, F) ==
    IF \/ ~Alive(s, item.parm)
       \/ Fails(F, "expression")
       \/ Deref(s, item.parm).expr = NoExpr
       \/ Fails(F, "expressionLanguage")
       \/ Fails(F, "setExpression")
    THEN [ok |-> FALSE, scene |-> s]
    ELSE
        LET e == Deref(s, item.parm).expr
        IN  [ok |-> TRUE,
             scene |-> Update(s, tn, item.name,
                              SetExpression(s[tn][item.name], e.text, e.lang))]

\* PlainValue that evaluates a String parameter like every other type
PlainValue_Evaluated(s, item) == EvalParm(item.type, Deref(s, item.parm))

\* the value the plain copy reads from the source: the raw string of a String
\* parameter, the evaluated value of every other type
PlainValue(s, item) ==
    IF item.type = "String"
    THEN Deref(s, item.parm).value
    ELSE EvalParm(item.type, Deref(s, item.parm))

\* whether the source read of the plain copy raises
PlainReadFails(s, item, F) ==
    \/ ~Alive(s, item.parm)
    \/ IF item.type = "String" THEN Fails(F, "unexpandedString") ELSE Fails(F, "eval")

\* CopyPlainValue whose set() stores the value before it raises
CopyPlainValue_WritesBeforeRaising(s, item, tn, F) ==
    IF PlainReadFails(s, item, F) THEN Ret("failed", s)
    ELSE
        LET s1 == Update(s, tn, item.name,
                         SetValue(s[tn][item.name], PlainValue(s, item)))
        IN  Ret(IF Fails(F, "set") THEN "failed" ELSE "success", s1)

\* the plain-value copy of _transfer_parameter
CopyPlainValue(s, item, tn, F) ==
    IF PlainReadFails(s, item, F) \/ Fails(F, "set") THEN Ret("failed", s)
    ELSE Ret("success",
             Update(s, tn, item.name, SetValue(s[tn][item.name], PlainValue(s, item))))

\* TransferBody whose keyframe branch is softened like the expression branch:
\* a keyframe copy that fails falls back to the plain-value copy
TransferBody_KeyframesFallBack(s, item, tn, copy_expressions, copy_keyframes, F) ==
    IF copy_keyframes /\ item.has_keyframes
    THEN LET k == CopyKeyframes(s, item, tn, F)
         IN  IF k.outcome = "success" THEN k
             ELSE CopyPlainValue(k.scene, item, tn, F)
    ELSE
        LET e == IF copy_expressions /\ item.has_expression
                 THEN CopyExpression(s, item, tn, F)
                 ELSE [ok |-> FALSE, scene |-> s]
        IN  IF e.ok THEN Ret("success", e.scene)
            ELSE CopyPlainValue(s, item, tn, F)

\* TransferBody whose keyframe branch tests the option alone, not the
\* descriptor's has_keyframes
TransferBody_KeyframesUnguarded(s, item, tn, copy_expressions, copy_keyframes, F) ==
    IF copy_keyframes
    THEN CopyKeyframes(s, item, tn, F)
    ELSE
        LET e == IF copy_expressions /\ item.has_expression
                 THEN CopyExpression(s, item, tn, F)
                 ELSE [ok |-> FALSE, scene |-> s]
        IN  IF e.ok THEN Ret("success", e.scene)
            ELSE CopyPlainValue(s, item, tn, F)

\* TransferBody without the inner try: a failing expression copy reaches the
\* outer handler
TransferBody_NoFallback(s, item, tn, copy_expressions, copy_keyframes, F) ==
    IF copy_keyframes /\ item.has_keyframes
    THEN CopyKeyframes(s, item, tn, F)
    ELSE IF copy_expressions /\ item.has_expression
    THEN LET e == CopyExpression(s, item, tn, F)
         IN  Ret(IF e.ok THEN "success" ELSE "failed", e.scene)
    ELSE CopyPlainValue(s, item, tn, F)

\* the body of the try of _transfer_parameter
TransferBody(s, item, tn, copy_expressions, copy_keyframes, F) ==
    IF copy_keyframes /\ item.has_keyframes
    THEN CopyKeyframes(s, item, tn, F)
    ELSE
        LET e == IF copy_expressions /\ item.has_expression
                 THEN CopyExpression(s, item, tn, F)
                 ELSE [ok |-> FALSE, scene |-> s]
        IN  IF e.ok THEN Ret("success", e.scene)
            ELSE CopyPlainValue(s, item, tn, F)

\* LockCheck that asks the target parameter only
LockCheck_TargetOnly(s, item, tn, skip_locked) ==
    IF skip_locked /\ s[tn][item.name].locked THEN "skipped" ELSE "proceed"

\* what the lock check of _transfer_parameter does, made before the try:
\* "raised" when source_parm.isLocked() raises, which nothing catches
LockCheck(s, item, tn, skip_locked) ==
    IF ~skip_locked THEN "proceed"
    ELSE IF s[tn][item.name].locked THEN "skipped"
    ELSE IF ~Alive(s, item.parm) THEN "raised"
    ELSE IF Deref(s, item.parm).locked THEN "skipped"
    ELSE "proceed"

\* _transfer_parameter that asks the source for its lock before it looks the
\* target parameter up
TransferParameter_LockFirst(s, item, tn, copy_expressions, copy_keyframes, skip_locked, F) ==
    IF skip_locked /\ Deref(s, item.parm).locked THEN Ret("skipped", s)
    ELSE IF ~s[tn][item.name].exists THEN Ret("failed", s)
    ELSE
        LET lc == LockCheck(s, item, tn, skip_locked)
        IN  IF lc # "proceed" THEN Ret(lc, s)
            ELSE TransferBody(s, item, tn, copy_expressions, copy_keyframes, F)

\* ParameterTransferPanel._transfer_parameter: its return value ("raised" when
\* an exception leaves it) and the scene after it
TransferParameter(s, item, tn, copy_expressions, copy_keyframes, skip_locked, F) ==
    IF ~s[tn][item.name].exists THEN Ret("failed", s)
    ELSE
        LET lc == LockCheck(s, item, tn, skip_locked)
        IN  IF lc # "proceed" THEN Ret(lc, s)
            ELSE TransferBody(s, item, tn, copy_expressions, copy_keyframes, F)

\* ----------------------------------------------- the scenes of the model

\* the i-th frame that holds a key of an animated source
FrameOf(i) == IF i = 1 THEN CurrentFrame ELSE 12 * (i - 1)

\* an animated source: MaxKeys keys, of alternating interpolation
SourceKeys ==
    [i \in 1..MaxKeys |->
        [time |-> FrameOf(i),
         value |-> IF i % 2 = 1 THEN "1.0" ELSE "2.0",
         interp |-> IF i % 2 = 1 THEN "bezier" ELSE "linear"]]

\* the animation a target holds beforehand: a key the source has too, with
\* another value, and a key at a frame the source has none at
TargetKeys ==
    <<[time |-> FrameOf(1), value |-> "7.0", interp |-> "constant"],
      [time |-> 6, value |-> "8.0", interp |-> "constant"]>>

SourceExpr(name) ==
    IF name = "file" THEN [text |-> "chs(\"../map\")", lang |-> "hscript"]
    ELSE [text |-> "ch(\"../ty\")", lang |-> "hscript"]

TargetExpr == [text |-> "$F", lang |-> "python"]

SourceValue(name) == IF name = "file" THEN "$HIP/tex.png" ELSE "4.5"

\* the states a source parameter is loaded in
SourcePresets(name) ==
    {[exists |-> TRUE, locked |-> FALSE, value |-> SourceValue(name),
      expr |-> e, keys |-> k] :
        e \in {NoExpr, SourceExpr(name)}, k \in {<<>>, SourceKeys}}

\* the states a target parameter is in before the first transfer: absent, at
\* its default, or holding an expression and an animation of its own
TargetPresets(name) ==
    {NoParm,
     [exists |-> TRUE, locked |-> FALSE, value |-> DefaultValue(name),
      expr |-> NoExpr, keys |-> <<>>],
     [exists |-> TRUE, locked |-> FALSE, value |-> DefaultValue(name),
      expr |-> TargetExpr, keys |-> TargetKeys]}

\* ------------------------------------------------------------ the history

NoItem == [parm |-> [node |-> "", name |-> ""], name |-> "", label |-> "",
           type |-> "", is_at_default |-> FALSE, value |-> "", value_display |-> "",
           has_keyframes |-> FALSE, has_expression |-> FALSE]

NoLast == [acted |-> FALSE, item |-> NoItem, target |-> "",
           copy_expressions |-> FALSE, copy_keyframes |-> FALSE,
           skip_locked |-> FALSE, outcome |-> "", pre |-> <<>>]

NoBatch == [result |-> "", source |-> "", parms |-> <<>>, targets |-> <<>>,
            success_count |-> 0, skip_count |-> 0, fail_count |-> 0,
            processed |-> <<>>]

\* the record of one call of _transfer_parameter, made from scene pre
Called(item, tn, ce, ck, sl, outcome, pre) ==
    [acted |-> TRUE, item |-> item, target |-> tn,
     copy_expressions |-> ce, copy_keyframes |-> ck, skip_locked |-> sl,
     outcome |-> outcome, pre |-> pre]

\* ------------------------------------- the resolver, one pair at a time

\* the source node n1 is loaded with one parameter, a target n2 may hold one
\* of the same name
Init ==
    \E name \in Names :
      \E sp \in SourcePresets(name), tp \in TargetPresets(name) :
        /\ scene = [n \in Nodes |-> [m \in Names |->
                        IF m # name THEN NoParm
                        ELSE IF n = "n1" THEN sp ELSE tp]]
        /\ deleted = {}
        /\ faults = {}
        /\ _source_node = "n1"
        /\ parameters = <<ParameterItem(scene, "n1", name, {})>>
        /\ checked_items = {}
        /\ show_only_non_default = FALSE
        /\ filter_text = ""
        /\ _filtered_indices = <<1>>
        /\ _nodes = <<>>
        /\ node_list = <<>>
        /\ batch = NoBatch
        /\ last = NoLast

\* the user locks or unlocks a parameter
ToggleLock(n, m) ==
    /\ scene[n][m].exists
    /\ scene' = [scene EXCEPT ![n][m].locked = ~@]
    /\ last' = NoLast
    /\ batch' = NoBatch
    /\ UNCHANGED <<deleted, faults, uiVars>>

\* the user deletes a parameter from its node
DestroyParm(n, m) ==
    /\ scene[n][m].exists
    /\ scene' = [scene EXCEPT ![n][m] = NoParm]
    /\ last' = NoLast
    /\ batch' = NoBatch
    /\ UNCHANGED <<deleted, faults, uiVars>>

\* the user edits the loaded source parameter after the snapshot was taken:
\* its animation, its expression or both are removed
EditSource(i, e, k) ==
    LET h == parameters[i].parm
    IN  /\ Alive(scene, h)
        /\ [Deref(scene, h) EXCEPT !.expr = e, !.keys = k] # Deref(scene, h)
        /\ scene' = [scene EXCEPT ![h.node][h.name].expr = e,
                                  ![h.node][h.name].keys = k]
        /\ last' = NoLast
        /\ batch' = NoBatch
        /\ UNCHANGED <<deleted, faults, uiVars>>

\* the host starts raising on one more scene-API call
AddFault(f) ==
    /\ f \notin faults
    /\ \A g \in faults : g.op # f.op
    /\ Cardinality(faults) < MaxFaults
    /\ faults' = faults \cup {f}
    /\ last' = NoLast
    /\ batch' = NoBatch
    /\ UNCHANGED <<scene, deleted, uiVars>>

\* the host stops raising
ClearFaults ==
    /\ faults # {}
    /\ faults' = {}
    /\ last' = NoLast
    /\ batch' = NoBatch
    /\ UNCHANGED <<scene, deleted, uiVars>>

\* one call of _transfer_parameter, for a target node other than the source
Transfer(i, tn, ce, ck, sl) ==
    LET r == TransferParameter(scene, parameters[i], tn, ce, ck, sl, faults)
    IN  /\ scene' = r.scene
        /\ last' = Called(parameters[i], tn, ce, ck, sl, r.outcome, scene)
        /\ UNCHANGED <<deleted, faults, uiVars, batch>>

Next ==
    \/ \E n \in Nodes, m \in Names : ToggleLock(n, m)
    \/ \E n \in Nodes, m \in Names : DestroyParm(n, m)
    \/ \E i \in 1..Len(parameters) :
          \E e \in {NoExpr, Deref(scene, parameters[i].parm).expr}, k \in {<<>>, Deref(scene, parameters[i].parm).keys} :
              EditSource(i, e, k)
    \/ \E f \in FaultSpace : AddFault(f)
    \/ ClearFaults
    \/ \E i \in 1..Len(parameters) :
          \E tn \in Nodes \ {parameters[i].parm.node}, ce \in BOOLEAN, ck \in BOOLEAN,
             sl \in BOOLEAN : Transfer(i, tn, ce, ck, sl)

Spec == Init /\ [][Next]_vars

\* ------------------------------------------------------ the table model

\* the characters of the strings the filter compares
Chars(str) ==
    CASE str = "tx" -> <<"t", "x">>
      [] str = "file" -> <<"f", "i", "l", "e">>
      [] str = "Translate X" -> <<"T", "r", "a", "n", "s", "l", "a", "t", "e", " ", "X">>
      [] str = "File" -> <<"F", "i", "l", "e">>
      [] str = "X" -> <<"X">>
      [] str = "fi" -> <<"f", "i">>
      [] OTHER -> <<>>

\* str.lower()
Lower(q) ==
    [i \in 1..Len(q) |->
        CASE q[i] = "T" -> "t" [] q[i] = "X" -> "x" [] q[i] = "F" -> "f"
          [] OTHER -> q[i]]

\* needle in hay
Contains(hay, needle) ==
    \E k \in 0..(Len(hay) - Len(needle)) : SubSeq(hay, k + 1, k + Len(needle)) = needle

\* the texts typed into the filter line
FilterTexts == {"", "X", "fi"}

\* ParameterTableModel._matches_filter
MatchesFilter(parm_item, only_non_default, text) ==
    IF only_non_default /\ parm_item.is_at_default THEN FALSE
    ELSE IF text # ""
    THEN LET search == Lower(Chars(text))
         IN  ~(/\ ~Contains(Lower(Chars(parm_item.name)), search)
               /\ ~Contains(Lower(Chars(parm_item.label)), search))
    ELSE TRUE

\* ParameterTableModel._update_filtered_indices
UpdateFilteredIndices(parm_items, only_non_default, text) ==
    SelectSeq([i \in 1..Len(parm_items) |-> i],
              LAMBDA i : MatchesFilter(parm_items[i], only_non_default, text))

\* ParameterTableModel.set_parameters
SetParameters(parm_items) ==
    /\ parameters' = parm_items
    /\ checked_items' = {}
    /\ _filtered_indices' = UpdateFilteredIndices(parm_items, show_only_non_default,
                                                  filter_text)
    /\ UNCHANGED <<show_only_non_default, filter_text>>

RECURSIVE SortedSeq(_)
\* the members of a set of indices, in rising order
SortedSeq(S) ==
    IF S = {} THEN <<>>
    ELSE LET m == CHOOSE x \in S : \A y \in S : x <= y
         IN  <<m>> \o SortedSeq(S \ {m})

\* ParameterTableModel.get_checked_parameters
GetCheckedParameters ==
    LET idx == SortedSeq(checked_items)
    IN  [k \in 1..Len(idx) |-> parameters[idx[k]]]

\* ------------------------------------------------------ the target picker

\* node.path()
Path(n) == IF n = "n1" THEN "/obj/n1" ELSE IF n = "n2" THEN "/obj/n2" ELSE "/obj"

\* the nodes of _nodes whose path() does not raise
ValidNodes == SelectSeq(_nodes, LAMBDA n : n \notin deleted)

RECURSIVE AppendNew(_, _, _)
\* the loop of _pick_from_selection from its i-th node on: the two lists after it
AppendNew(lists, selected, i) ==
    IF i > Len(selected) THEN lists
    ELSE IF selected[i] \in Range(lists.nodes) THEN AppendNew(lists, selected, i + 1)
    ELSE AppendNew([nodes |-> Append(lists.nodes, selected[i]),
                    shown |-> Append(lists.shown, Path(selected[i]))],
                   selected, i + 1)

\* the orders hou.selectedNodes() can list a selection of live nodes in
Selections ==
    {q \in UNION {[1..k -> Nodes \ deleted] : k \in 1..Cardinality(Nodes)} :
        \A i, j \in 1..Len(q) : i # j => q[i] # q[j]}

\* del q[k - 1], and node_list.takeItem(k - 1)
RemoveAt(q, k) == SubSeq(q, 1, k - 1) \o SubSeq(q, k + 1, Len(q))

\* the orders node_list.selectedItems() can list a selection of rows in
RowSelections ==
    {q \in UNION {[1..k -> 1..Len(node_list)] : k \in 1..Len(node_list)} :
        \A i, j \in 1..Len(q) : i # j => q[i] # q[j]}

RECURSIVE RemoveRows(_, _, _)
\* the loop of _remove_selected from its i-th item on: the row of the item is
\* looked up when its turn comes; del self._nodes[row] raises IndexError for a
\* row _nodes does not have, after the item was taken from node_list
RemoveRows(lists, sel, i) ==
    IF i > Len(sel) THEN lists
    ELSE
        LET row == sel[i] - Cardinality({j \in 1..(i - 1) : sel[j] < sel[i]})
            shown == RemoveAt(lists.shown, row)
        IN  IF row > Len(lists.nodes)
            THEN [nodes |-> lists.nodes, shown |-> shown]
            ELSE RemoveRows([nodes |-> RemoveAt(lists.nodes, row), shown |-> shown],
                            sel, i + 1)

\* ------------------------------------------------------------- the batch

\* the pairs of a batch, in the order of the two loops of _do_transfer
Pairs(target_nodes, checked_parms) ==
    [k \in 1..(Len(target_nodes) * Len(checked_parms)) |->
        [target |-> target_nodes[((k - 1) \div Len(checked_parms)) + 1],
         item |-> checked_parms[((k - 1) % Len(checked_parms)) + 1]]]

RECURSIVE RunPairs(_, _, _, _, _, _, _, _)
\* the loops of _do_transfer from the k-th pair on: the scene and the counts
\* when they end, raised when an exception left _transfer_parameter
RunPairs(s, pairs, k, ce, ck, sl, F, acc) ==
    IF k > Len(pairs) THEN [acc EXCEPT !.scene = s]
    ELSE
        LET r == TransferParameter(s, pairs[k].item, pairs[k].target, ce, ck, sl, F)
            seen == Append(acc.processed, <<pairs[k].target, pairs[k].item.name>>)
        IN  IF r.outcome = "raised" THEN [acc EXCEPT !.scene = r.scene, !.raised = TRUE]
            ELSE RunPairs(r.scene, pairs, k + 1, ce, ck, sl, F,
                    [acc EXCEPT
                        !.processed = seen,
                        !.success_count = IF r.outcome = "success" THEN @ + 1 ELSE @,
                        !.skip_count = IF r.outcome = "skipped" THEN @ + 1 ELSE @,
                        !.fail_count = IF r.outcome \notin {"success", "skipped"}
                                       THEN @ + 1 ELSE @])

\* the batch of _do_transfer, run from scene s
RunBatch(s, target_nodes, checked_parms, ce, ck, sl, F) ==
    RunPairs(s, Pairs(target_nodes, checked_parms), 1, ce, ck, sl, F,
             [scene |-> s, raised |-> FALSE, processed |-> <<>>,
              success_count |-> 0, skip_count |-> 0, fail_count |-> 0])

\* what _do_transfer does before its batch: the notice it halts with, "raised"
\* when self._source_node.path() raises, "Cancel" when the user declines,
\* "Transfer" when the batch starts
Precheck(checked_parms, target_nodes, confirm) ==
    IF checked_parms = <<>> THEN "Nothing Selected"
    ELSE IF target_nodes = <<>> THEN "No Targets"
    ELSE IF _source_node = "None" \/ _source_node \in deleted THEN "raised"
    ELSE IF ~confirm THEN "Cancel"
    ELSE "Transfer"

\* ------------------------------------------------------------- the panel

\* the order node.parms() lists the parameters of a node in
ParmOrder == <<"tx", "file", "mode", "on", "ramp">>

\* the list _on_source_changed builds from node.parms(); the scene of the
\* model holds value-bearing parameters only, no folders, labels or separators
LoadParameters(s, node, F) ==
    LET present == SelectSeq(ParmOrder,
                             LAMBDA m : m \in DOMAIN s[node] /\ s[node][m].exists)
    IN  [k \in 1..Len(present) |-> ParameterItem(s, node, present[k], F)]

\* the scene the panel is opened on: two nodes with both parameters, each with
\* one of them at its default
PanelScene ==
    [n \in Nodes |-> [m \in Names |->
        [exists |-> TRUE, locked |-> FALSE,
         value |-> IF (n = "n1") = (m = "tx") THEN SourceValue(m) ELSE DefaultValue(m),
         expr |-> NoExpr, keys |-> <<>>]]]

\* ParameterTransferPanel.__init__ and the constructors of its widgets
InitPanel ==
    /\ scene = PanelScene
    /\ deleted = {}
    /\ faults = {}
    /\ _source_node = "None"
    /\ parameters = <<>>
    /\ checked_items = {}
    /\ show_only_non_default = FALSE
    /\ filter_text = ""
    /\ _filtered_indices = <<>>
    /\ _nodes = <<>>
    /\ node_list = <<>>
    /\ batch = NoBatch
    /\ last = NoLast

\* _on_source_changed that returns on None without emptying the table
OnSourceChanged_KeepsList(node) ==
    /\ _source_node' = node
    /\ IF node = "None" THEN UNCHANGED tableVars
       ELSE SetParameters(LoadParameters(scene, node, faults))
    /\ batch' = NoBatch
    /\ UNCHANGED <<scene, deleted, faults, pickerVars, last>>

\* ParameterTransferPanel._on_source_changed, reached from NodePickerWidget.set_node
OnSourceChanged(node) ==
    /\ _source_node' = node
    /\ IF node = "None" THEN SetParameters(<<>>)
       ELSE SetParameters(LoadParameters(scene, node, faults))
    /\ batch' = NoBatch
    /\ UNCHANGED <<scene, deleted, faults, pickerVars, last>>

\* set_filter that unchecks the parameters the new filter hides
SetFilter_DropsHidden(text) ==
    /\ text # filter_text
    /\ filter_text' = text
    /\ _filtered_indices' = UpdateFilteredIndices(parameters, show_only_non_default, text)
    /\ checked_items' = checked_items \cap Range(_filtered_indices')
    /\ batch' = NoBatch
    /\ UNCHANGED <<scene, deleted, faults, _source_node, parameters,
                   show_only_non_default, pickerVars, last>>

\* ParameterTableModel.set_filter
SetFilter(text) ==
    /\ text # filter_text
    /\ filter_text' = text
    /\ _filtered_indices' = UpdateFilteredIndices(parameters, show_only_non_default, text)
    /\ batch' = NoBatch
    /\ UNCHANGED <<scene, deleted, faults, _source_node, parameters, checked_items,
                   show_only_non_default, pickerVars, last>>

\* ParameterTableModel.set_show_only_non_default
SetShowOnlyNonDefault(enabled) ==
    /\ enabled # show_only_non_default
    /\ show_only_non_default' = enabled
    /\ _filtered_indices' = UpdateFilteredIndices(parameters, enabled, filter_text)
    /\ batch' = NoBatch
    /\ UNCHANGED <<scene, deleted, faults, _source_node, parameters, checked_items,
                   filter_text, pickerVars, last>>

\* the table model's check-box writers leave everything else alone
OnlyChecks ==
    /\ batch' = NoBatch
    /\ UNCHANGED <<scene, deleted, faults, _source_node, parameters,
                   show_only_non_default, filter_text, _filtered_indices,
                   pickerVars, last>>

\* ParameterTableModel.setData on the check box of a visible row
SetData(row, checked) ==
    /\ row \in 1..Len(_filtered_indices)
    /\ checked_items' = IF checked THEN checked_items \cup {_filtered_indices[row]}
                        ELSE checked_items \ {_filtered_indices[row]}
    /\ checked_items' # checked_items
    /\ OnlyChecks

\* ParameterTableModel.check_all_visible
CheckAllVisible ==
    /\ checked_items' = checked_items \cup Range(_filtered_indices)
    /\ checked_items' # checked_items
    /\ OnlyChecks

\* ParameterTableModel.uncheck_all
UncheckAll ==
    /\ checked_items # {}
    /\ checked_items' = {}
    /\ OnlyChecks

\* ParameterTableModel.check_non_default
CheckNonDefault ==
    /\ checked_items' = {i \in 1..Len(parameters) : ~parameters[i].is_at_default}
    /\ checked_items' # checked_items
    /\ OnlyChecks

\* the target picker's handlers leave everything else alone
OnlyPicker ==
    /\ batch' = NoBatch
    /\ UNCHANGED <<scene, deleted, faults, _source_node, tableVars, last>>

\* MultiNodePickerWidget._pick_from_selection, with a selection in the network
PickFromSelection(selected) ==
    LET lists == AppendNew([nodes |-> _nodes, shown |-> node_list], selected, 1)
    IN  /\ _nodes' = lists.nodes
        /\ node_list' = lists.shown
        /\ <<_nodes', node_list'>> # <<_nodes, node_list>>
        /\ OnlyPicker

\* MultiNodePickerWidget._remove_selected, with rows selected in the list
RemoveSelected(sel) ==
    LET lists == RemoveRows([nodes |-> _nodes, shown |-> node_list], sel, 1)
    IN  /\ _nodes' = lists.nodes
        /\ node_list' = lists.shown
        /\ OnlyPicker

\* MultiNodePickerWidget.clear
ClearTargets ==
    /\ <<_nodes, node_list>> # <<<<>>, <<>>>>
    /\ _nodes' = <<>>
    /\ node_list' = <<>>
    /\ OnlyPicker

\* a node is deleted from the scene: its path() raises from now on, and so
\* does every call through a handle of one of its parameters
DeleteNode(n) ==
    /\ n \notin deleted
    /\ deleted' = deleted \cup {n}
    /\ scene' = [scene EXCEPT ![n] = [m \in Names |-> NoParm]]
    /\ batch' = NoBatch
    /\ UNCHANGED <<faults, uiVars, last>>

\* ParameterTransferPanel._do_transfer, with the three check boxes as they
\* stand and the user's answer to the confirmation
DoTransfer(ce, ck, sl, confirm) ==
    LET checked_parms == GetCheckedParameters
        target_nodes == ValidNodes
        verdict == Precheck(checked_parms, target_nodes, confirm)
        run == RunBatch(scene, target_nodes, checked_parms, ce, ck, sl, faults)
        started == verdict = "Transfer"
    IN  /\ _nodes' = IF checked_parms = <<>> THEN _nodes ELSE target_nodes
        /\ scene' = IF started THEN run.scene ELSE scene
        /\ batch' = [result |-> IF ~started THEN verdict
                                ELSE IF run.raised THEN "raised in batch"
                                ELSE "Transfer Complete",
                     source |-> _source_node,
                     parms |-> [k \in 1..Len(checked_parms) |-> checked_parms[k].name],
                     targets |-> target_nodes,
                     success_count |-> IF started THEN run.success_count ELSE 0,
                     skip_count |-> IF started THEN run.skip_count ELSE 0,
                     fail_count |-> IF started THEN run.fail_count ELSE 0,
                     processed |-> IF started THEN run.processed ELSE <<>>]
        /\ UNCHANGED <<deleted, faults, _source_node, tableVars, node_list, last>>

NextPanel ==
    \/ \E node \in (Nodes \ deleted) \cup {"None"} : OnSourceChanged(node)
    \/ \E text \in FilterTexts : SetFilter(text)
    \/ \E enabled \in BOOLEAN : SetShowOnlyNonDefault(enabled)
    \/ \E row \in 1..Len(ParmOrder), checked \in BOOLEAN : SetData(row, checked)
    \/ CheckAllVisible
    \/ UncheckAll
    \/ CheckNonDefault
    \/ \E selected \in Selections : PickFromSelection(selected)
    \/ \E sel \in RowSelections : RemoveSelected(sel)
    \/ ClearTargets
    \/ \E n \in Nodes : DeleteNode(n)
    \/ \E ce \in BOOLEAN, ck \in BOOLEAN, sl \in BOOLEAN, confirm \in BOOLEAN :
          DoTransfer(ce, ck, sl, confirm)

SpecPanel == InitPanel /\ [][NextPanel]_vars

\* ------------------------------------- the batch on a disturbed scene

\* the disturbances the scene holds
SceneEdits ==
    Cardinality({h \in Nodes \X Names : scene[h[1]][h[2]].locked})
    + Cardinality({h \in (Nodes \ deleted) \X Names : ~scene[h[1]][h[2]].exists})
    + Cardinality(deleted)
    + Cardinality(faults)

\* the scene edits, at most MaxSceneEdits of them standing at a time
BoundedToggleLock(n, m) ==
    /\ scene[n][m].locked \/ SceneEdits < MaxSceneEdits
    /\ ToggleLock(n, m)

BoundedDestroyParm(n, m) ==
    /\ SceneEdits < MaxSceneEdits
    /\ DestroyParm(n, m)

BoundedDeleteNode(n) ==
    /\ SceneEdits < MaxSceneEdits
    /\ DeleteNode(n)

BoundedAddFault(f) ==
    /\ SceneEdits < MaxSceneEdits
    /\ AddFault(f)

\* the panel after n1 was picked as the source
InitBatch ==
    /\ scene = PanelScene
    /\ deleted = {}
    /\ faults = {}
    /\ _source_node = "n1"
    /\ parameters = LoadParameters(PanelScene, "n1", {})
    /\ checked_items = {}
    /\ show_only_non_default = FALSE
    /\ filter_text = ""
    /\ _filtered_indices = UpdateFilteredIndices(parameters, FALSE, "")
    /\ _nodes = <<>>
    /\ node_list = <<>>
    /\ batch = NoBatch
    /\ last = NoLast

NextBatch ==
    \/ \E row \in 1..Len(ParmOrder), checked \in BOOLEAN : SetData(row, checked)
    \/ \E selected \in Selections : PickFromSelection(selected)
    \/ ClearTargets
    \/ \E n \in Nodes, m \in Names : BoundedToggleLock(n, m)
    \/ \E n \in Nodes, m \in Names : BoundedDestroyParm(n, m)
    \/ \E n \in Nodes : BoundedDeleteNode(n)
    \/ \E f \in FaultSpace : BoundedAddFault(f)
    \/ ClearFaults
    \/ \E ce \in BOOLEAN, ck \in BOOLEAN, sl \in BOOLEAN, confirm \in BOOLEAN :
          DoTransfer(ce, ck, sl, confirm)

SpecBatch == InitBatch /\ [][NextBatch]_vars

\* ----------------------------------------- the snapshot under raising reads

\* the parameters a snapshot is taken of: one of every type _get_display_value
\* tells apart
SnapshotNames == Names \cup {"mode", "on", "ramp"}

\* the reads of ParameterItem.__init__ that sit inside a try
SnapshotOps == {"eval", "unexpandedString", "expression", "type", "menuLabels"}

SnapshotFaults == SUBSET {[op |-> o, at |-> 1] : o \in SnapshotOps}

\* a path of more than 50 characters
LongPath == "$HIP/textures/characters/hero/diffuse_color_map_v012.exr"

\* the stored values a parameter is loaded with
SnapshotValues(name) ==
    CASE name = "file" -> {"", "$HIP/tex.png", LongPath}
      [] name = "mode" -> {"0", "1", "5"}
      [] name = "on" -> {"0", "1"}
      [] name = "ramp" -> {"<hou.Ramp>"}
      [] OTHER -> {"0.0", "4.5", "0.1234567"}

\* the states a parameter is loaded in; the model animates and drives by
\* expression the Float and the String parameter only
SnapshotPresets(name) ==
    {[exists |-> TRUE, locked |-> FALSE, value |-> v, expr |-> e, keys |-> k] :
        v \in SnapshotValues(name),
        e \in IF name \in Names THEN {NoExpr, SourceExpr(name)} ELSE {NoExpr},
        k \in IF name \in Names THEN {<<>>, SourceKeys} ELSE {<<>>}}

\* a node n1 with one parameter, not yet picked as the source
InitSnapshot ==
    \E name \in SnapshotNames :
      \E sp \in SnapshotPresets(name) :
        /\ scene = [n \in Nodes |-> [m \in SnapshotNames |->
                        IF n = "n1" /\ m = name THEN sp ELSE NoParm]]
        /\ deleted = {}
        /\ faults = {}
        /\ _source_node = "None"
        /\ parameters = <<>>
        /\ checked_items = {}
        /\ show_only_non_default = FALSE
        /\ filter_text = ""
        /\ _filtered_indices = <<>>
        /\ _nodes = <<>>
        /\ node_list = <<>>
        /\ batch = NoBatch
        /\ last = NoLast

\* _on_source_changed(node) while the reads F of the host raise
LoadSourceUnder(node, F) ==
    /\ faults' = F
    /\ _source_node' = node
    /\ SetParameters(LoadParameters(scene, node, F))
    /\ batch' = NoBatch
    /\ UNCHANGED <<scene, deleted, pickerVars, last>>

NextSnapshot ==
    \/ \E F \in SnapshotFaults : LoadSourceUnder("n1", F)
    \/ OnSourceChanged("None")

SpecSnapshot == InitSnapshot /\ [][NextSnapshot]_vars

\* ------------------------------------------- the claims about one transfer

\* the target parameter of the last call, before it and now
PreTarget == last.pre[last.target][last.item.name]
PostTarget == scene[last.target][last.item.name]
\* the source parameter of the last call as it was when the call was made
PreSource == Deref(last.pre, last.item.parm)

\* the last call found its target parameter, and found it unlocked
TargetOpen == last.acted /\ PreTarget.exists /\ ~PreTarget.locked

\* the lock option did not apply to the source of the last call
SourceOpen == last.skip_locked => ~PreSource.locked

\* no call the keyframe branch makes raised
KeyframeCallsReturn ==
    /\ PreSource.exists
    /\ ~Fails(faults, "deleteAllKeyframes")
    /\ ~Fails(faults, "keyframes")
    /\ KeyframeFaultAt(faults) \notin 1..Len(PreSource.keys)

\* no call the plain-value copy makes raised
PlainCallsReturn ==
    /\ PreSource.exists
    /\ ~PlainReadFails(last.pre, last.item, faults)
    /\ ~Fails(faults, "set")

\* no call the expression branch makes raised
ExpressionCallsReturn ==
    /\ PreSource.exists
    /\ PreSource.expr # NoExpr
    /\ ~Fails(faults, "expression")
    /\ ~Fails(faults, "expressionLanguage")
    /\ ~Fails(faults, "setExpression")

\* the keyframes of the target are those of the source, in its order, and no
\* key the target held before is left
KeyframesReplaced ==
    /\ last.outcome = "success"
    /\ PostTarget.keys = PreSource.keys
    /\ \A k \in Range(PreTarget.keys) \ Range(PreSource.keys) :
          k \notin Range(PostTarget.keys)

C2_LockedIsSkipped ==
    (/\ last.acted /\ last.skip_locked /\ PreTarget.exists
     /\ (PreTarget.locked \/ (PreSource.exists /\ PreSource.locked)))
        => last.outcome = "skipped"

\* the source was locked after it was loaded, the target is not locked
C2_Witness ==
    /\ last.acted /\ last.skip_locked /\ PreTarget.exists
    /\ ~PreTarget.locked /\ PreSource.exists /\ PreSource.locked
    /\ last.copy_keyframes /\ last.item.has_keyframes
    /\ last.outcome = "skipped"

\* C3: a target node without a parameter of the descriptor's name gives
\* Failed, whatever the options and the lock of the source are.
C3_MissingIsFailed ==
    (last.acted /\ ~PreTarget.exists) => last.outcome = "failed"

C3_Witness ==
    /\ last.acted /\ ~PreTarget.exists
    /\ last.skip_locked /\ PreSource.exists /\ PreSource.locked
    /\ last.outcome = "failed"

\* C5: the same transfer run again, with nothing edited in between, returns
\* the same outcome and leaves the scene as the first run left it.
C5_Idempotent ==
    last.acted =>
        LET again == TransferParameter(scene, last.item, last.target,
                                       last.copy_expressions, last.copy_keyframes,
                                       last.skip_locked, faults)
        IN  /\ again.outcome = last.outcome
            /\ again.scene = scene

\* a first run that changed its target
C5_Witness ==
    /\ last.acted
    /\ last.outcome = "success"
    /\ PostTarget # PreTarget

\* the raw string of the source was written to the target
RawStringCopied ==
    /\ last.outcome = "success"
    /\ PostTarget.value = PreSource.value

\* C6 as stated: a String source transferred with both copy options off to an
\* existing unlocked target parameter sets it to the raw string; Success.
C6_AsStated ==
    (/\ TargetOpen /\ last.item.type = "String"
     /\ ~last.copy_expressions /\ ~last.copy_keyframes)
        => RawStringCopied

\* C6, amended: the same, provided the source is not locked while skipLocked
\* is set and no scene-API call of the copy raises.
C6_RawStringCopied ==
    (/\ TargetOpen /\ last.item.type = "String"
     /\ ~last.copy_expressions /\ ~last.copy_keyframes
     /\ SourceOpen /\ PlainCallsReturn)
        => RawStringCopied

\* the raw string differs from what it expands to
C6_Witness ==
    /\ TargetOpen /\ last.item.type = "String"
    /\ ~last.copy_expressions /\ ~last.copy_keyframes
    /\ SourceOpen /\ PlainCallsReturn
    /\ PreSource.value # EvalParm("String", PreSource)
    /\ PreTarget.value # PreSource.value
    /\ PostTarget.value = "$HIP/tex.png"

\* the evaluated value of the source was written to the target
EvaluatedValueCopied ==
    /\ last.outcome = "success"
    /\ PostTarget.value = EvalParm(last.item.type, PreSource)

\* the descriptor of the last call is neither animated nor expression-driven
PlainDescriptor == ~last.item.has_keyframes /\ ~last.item.has_expression

\* C8 as stated: a non-String descriptor without animation and expression,
\* transferred to an unlocked target parameter, gives Success under every
\* option set, and the target holds the source's evaluated value.
C8_AsStated ==
    (TargetOpen /\ last.item.type # "String" /\ PlainDescriptor)
        => EvaluatedValueCopied

\* C8, amended: the same, provided the source is not locked while skipLocked
\* is set and no scene-API call of the copy raises.
C8_EvaluatedValueCopied ==
    (/\ TargetOpen /\ last.item.type # "String" /\ PlainDescriptor
     /\ SourceOpen /\ PlainCallsReturn)
        => EvaluatedValueCopied

\* the scenario of the specification: tx = 4.5 onto tx = 0.0, default options
C8_Witness ==
    /\ TargetOpen /\ last.item.type # "String" /\ PlainDescriptor
    /\ SourceOpen /\ PlainCallsReturn
    /\ last.copy_expressions /\ last.copy_keyframes /\ last.skip_locked
    /\ PreTarget.value = "0.0"
    /\ PostTarget.value = "4.5"

\* the option that applies to the descriptor of the last call is unchecked
OptionUnchecked ==
    \/ last.item.has_expression /\ ~last.copy_expressions
    \/ last.item.has_keyframes /\ ~last.copy_keyframes

\* C9 as stated: with the applying option unchecked, a transfer that succeeds
\* writes the source's evaluated value, for every type, and writes neither an
\* expression nor keyframes.
C9_AsStated ==
    (last.acted /\ OptionUnchecked /\ last.outcome = "success")
        => /\ PostTarget.value = EvalParm(last.item.type, PreSource)
           /\ PostTarget.expr = PreTarget.expr
           /\ PostTarget.keys = PreTarget.keys

\* the last call reached the expression branch
ExpressionBranch ==
    /\ last.acted /\ PreTarget.exists
    /\ LockCheck(last.pre, last.item, last.target, last.skip_locked) = "proceed"
    /\ ~(last.copy_keyframes /\ last.item.has_keyframes)
    /\ last.copy_expressions /\ last.item.has_expression

\* C10: in the expression branch a failing step does not fail the pair: the
\* plain-value copy runs and decides the outcome; when the expression copy
\* succeeds the outcome is Success and the plain-value copy does not run.
C10_ExpressionFallsThrough ==
    ExpressionBranch =>
        IF ExpressionCallsReturn
        THEN /\ last.outcome = "success"
             /\ PostTarget.expr = PreSource.expr
             /\ PostTarget.value = PreTarget.value
        ELSE /\ PostTarget.expr = PreTarget.expr
             /\ IF PlainCallsReturn
                THEN /\ last.outcome = "success"
                     /\ PostTarget.value = PlainValue(last.pre, last.item)
                ELSE last.outcome = "failed"

\* setExpression raised on the target and the value was copied instead
C10_Witness ==
    /\ ExpressionBranch
    /\ Fails(faults, "setExpression")
    /\ last.outcome = "success"
    /\ PostTarget.expr = PreTarget.expr
    /\ PostTarget.value # PreTarget.value

\* the last call reached the keyframe branch
KeyframeBranch ==
    /\ last.acted /\ PreTarget.exists
    /\ LockCheck(last.pre, last.item, last.target, last.skip_locked) = "proceed"
    /\ last.copy_keyframes /\ last.item.has_keyframes

\* reading the keyframes of the source raised, or writing one of them did
KeyframeCopyRaises ==
    \/ ~PreSource.exists
    \/ Fails(faults, "keyframes")
    \/ KeyframeFaultAt(faults) \in 1..Len(PreSource.keys)

\* C11: in the keyframe branch, entered on the cached has_keyframes flag even
\* when the live source lost its animation since, a failure to read the source
\* keyframes or to write a keyframe on the target gives Failed; neither the
\* expression copy nor the plain-value copy runs in its place.
C11_KeyframeFailureIsFailed ==
    (KeyframeBranch /\ KeyframeCopyRaises) =>
        /\ last.outcome = "failed"
        /\ PostTarget.expr = PreTarget.expr
        /\ PostTarget.value = PreTarget.value

\* keyframes() raised on a source whose expression and value differ from the
\* target's, with copyExpressions set
C11_Witness ==
    /\ KeyframeBranch
    /\ Fails(faults, "keyframes")
    /\ last.copy_expressions
    /\ PreSource.expr # NoExpr /\ PreSource.expr # PreTarget.expr
    /\ PreSource.value # PreTarget.value
    /\ last.outcome = "failed"

\* the last call ended in Skipped or Failed
NotSuccess == last.acted /\ last.outcome \in {"skipped", "failed"}

\* the keyframe branch of the last call got past deleteAllKeyframes
KeyframesCleared == KeyframeBranch /\ ~Fails(faults, "deleteAllKeyframes")

\* C13 as stated: a pair that ends in Skipped or Failed leaves the target
\* parameter as it was: value, expression and keyframes.
C13_AsStated ==
    NotSuccess => PostTarget = PreTarget

\* C13, amended: a pair that ends in Skipped or Failed leaves the value, the
\* expression and the lock of the target parameter as they were, and its
\* keyframes too unless the keyframe branch cleared them before it failed:
\* then the target holds the source keyframes written before the failure and
\* none of its own.
C13_FrameButClearedKeyframes ==
    NotSuccess =>
        /\ PostTarget.value = PreTarget.value
        /\ PostTarget.expr = PreTarget.expr
        /\ PostTarget.locked = PreTarget.locked
        /\ PostTarget.exists = PreTarget.exists
        /\ IF KeyframesCleared
           THEN \E n \in 0..Len(PreSource.keys) :
                   PostTarget.keys = SubSeq(PreSource.keys, 1, n)
           ELSE PostTarget.keys = PreTarget.keys

\* the second setKeyframe raised: the target lost its own animation and holds
\* the first key of the source
C13_Witness ==
    /\ NotSuccess
    /\ KeyframesCleared
    /\ KeyframeFaultAt(faults) = 2
    /\ PreTarget.keys = TargetKeys
    /\ PostTarget.keys = <<SourceKeys[1]>>

\* ------------------------------------------ the claims about the snapshot

\* the source is loaded: its descriptor, and the parameter it was built from
Loaded == _source_node # "None"
TheItem == parameters[1]
TheParm == Deref(scene, TheItem.parm)

BatchStarted == batch.result \in {"Transfer Complete", "raised in batch"}

\* the pairs the last batch had to process
BatchPairs == {<<n, m>> : n \in Range(batch.targets), m \in Range(batch.parms)}

\* C4 as stated: no exception of a pair aborts the batch; each of the N*M
\* pairs is processed once and counted in one of the three counters, which
\* sum to N*M when the batch ends.
C4_AsStated ==
    BatchStarted =>
        /\ batch.result = "Transfer Complete"
        /\ Len(batch.processed) = Len(batch.targets) * Len(batch.parms)
        /\ Range(batch.processed) = BatchPairs
        /\ batch.success_count + batch.skip_count + batch.fail_count
              = Len(batch.targets) * Len(batch.parms)

\* _do_transfer was run without a source node, without a checked parameter or
\* without a valid target node
InputMissing ==
    /\ batch.result # ""
    /\ \/ batch.source = "None"
       \/ batch.parms = <<>>
       \/ batch.targets = <<>>

\* C7: without a source node, without checked parameters or without valid
\* target nodes _do_transfer halts at its precondition check with a notice and
\* processes no pair; and a panel without a source node has nothing checked.
C7_NoBatchWithoutInputs ==
    /\ InputMissing =>
          /\ batch.result \in {"Nothing Selected", "No Targets"}
          /\ batch.processed = <<>>
    /\ _source_node = "None" => checked_items = {}

\* the source was cleared while targets were listed, and the transfer pressed
C7_Witness ==
    /\ batch.result = "Nothing Selected"
    /\ batch.source = "None"
    /\ batch.targets # <<>>
    /\ filter_text # ""

\* C14 as stated: after any sequence of picker operations the list shown and
\* _nodes have the same length, the i-th path shown is the path of the i-th
\* node, and no node is listed twice.
C14_AsStated ==
    /\ Len(node_list) = Len(_nodes)
    /\ \A i \in 1..Len(_nodes) : node_list[i] = Path(_nodes[i])
    /\ \A i, j \in 1..Len(_nodes) : i # j => _nodes[i] # _nodes[j]

\* the indices of the rows the table shows
Visible == Range(_filtered_indices)

\* a step that changes the text filter or the show-only-modified toggle
FilterStep ==
    filter_text' # filter_text \/ show_only_non_default' # show_only_non_default

\* a step of set_parameters: the source is picked, picked again or cleared
LoadStep == \E node \in Nodes \cup {"None"} : OnSourceChanged(node)

\* what _do_transfer got from get_checked_parameters is every checked
\* parameter, and a batch that ran to its end processed each of them on every
\* target
CheckedAreTransferred ==
    /\ Range(GetCheckedParameters) = {parameters[i] : i \in checked_items}
    /\ batch.result # "" =>
          Range(batch.parms) = {parameters[i].name : i \in checked_items}
    /\ batch.result = "Transfer Complete" =>
          \A i \in checked_items, n \in Range(batch.targets) :
              <<n, parameters[i].name>> \in Range(batch.processed)

\* C15: a change of the text filter or of the show-only-modified toggle leaves
\* the checked set as it is; get_checked_parameters returns every checked
\* parameter, visible or hidden, and a hidden one is transferred; every checked
\* index is an index of the current parameter list; loading a parameter list
\* empties the checked set.
C15_ChecksOutliveFilters ==
    /\ [](checked_items \subseteq 1..Len(parameters))
    /\ []CheckedAreTransferred
    /\ [][FilterStep => checked_items' = checked_items]_vars
    /\ [][LoadStep => checked_items' = {}]_vars

\* tx was checked, hidden by the filter and transferred all the same
C15_Witness ==
    /\ batch.result = "Transfer Complete"
    /\ filter_text # ""
    /\ \E i \in checked_items :
          /\ i \notin Visible
          /\ \E n \in Range(batch.targets) :
                <<n, parameters[i].name>> \in Range(batch.processed)

====
